---- MODULE Spec2Model ----
(***************************************************************************)
(* WagerVS betting backend: the chip ledger, the balance projection, bet   *)
(* placement, event resolution, payout distribution, refunds and           *)
(* withdrawals, modelled from the services under backend/src/services.     *)
(*                                                                         *)
(* Every await on the store is one step of a request handler; a            *)
(* prisma.$transaction block commits as one step.  Reads made through the  *)
(* global client inside a transaction see committed rows only.             *)
(*                                                                         *)
(* Amounts are fixed-point integers: Unit units make one chip.  The store  *)
(* keeps DECIMAL(18,8); the model keeps five decimal places so that the    *)
(* products of the payout computation stay inside TLC's integers.          *)
(***************************************************************************)
EXTENDS Integers, Sequences, FiniteSets, TLC

\* ---------------------------------------------------------------- bounds
MaxLedger == 3
MaxNow == 1
MaxCashOuts == 1
MaxSent == 1
MaxSettleBets == 2
MaxRaceBets == 2

\* ------------------------------------------------------- program constants
Unit == 100000
MIN_BET_AMOUNT == 1
MAX_BET_AMOUNT == 2000
COMPANY_PRIZE_POOL_RAKE == 25
FREE_CHIPS_DAILY_AMOUNT == 1
FREE_CHIPS_COOLDOWN_HOURS == 24

\* ------------------------------------------------------------ input domains
Procs == {1, 2}
Users == {"u1", "u2"}
EventIds == {"e1"}
VALID_CHOICE_LETTERS == {"A", "B", "C", "D", "E", "F", "G", "H"}
EventChoices == {"A", "B"}
\* letters sent by clients: the choices of the event, a valid letter that is no
\* choice of the event, and a letter outside VALID_CHOICE_LETTERS
ChoiceInputs == EventChoices \cup {"C", "Z"}
EventStatuses == {"draft", "pending", "active", "locked", "completed", "paid_out", "cancelled"}
Signatures == {"s1"}

VARIABLES
  now,          \* wall clock, in ticks of 24 hours
  events,       \* events and their event_choices rows (totalPool per letter)
  bets,         \* event_bets rows, in insertion order; the row id is the index
  payouts,      \* event_payouts rows, in insertion order
  cashOuts,     \* cash_out_requests rows, in insertion order
  ledger,       \* ledger rows of each user, in creation order (append-only)
  sent,         \* per cash-out request: number of successful treasury transfers
  pc,           \* per request handler: position in the running operation
  loc           \* per request handler: the operation's locals and its outcome

vars == <<now, events, bets, payouts, cashOuts, ledger, sent, pc, loc>>
db == <<events, bets, payouts, cashOuts, ledger, sent>>

\* ------------------------------------------------------------------ helpers
Chips(n) == n * Unit

Max(a, b) == IF a >= b THEN a ELSE b

Min(a, b) == IF a <= b THEN a ELSE b

Abs(a) == IF a < 0 THEN 0 - a ELSE a

RECURSIVE SumAmounts(_)
SumAmounts(rows) ==
  IF rows = <<>> THEN 0 ELSE Head(rows).amount + SumAmounts(Tail(rows))

\* the row ids of a table, in insertion order
RowIds(rows) == [i \in 1..Len(rows) |-> i]

Range(s) == {s[i] : i \in DOMAIN s}

\* floor(d * a / w) and the rounding of d * a / w to the nearest unit (half
\* up, as the DECIMAL column rounds), computed without leaving 32 bits
MulDiv(d, a, w) == (d \div w) * a + (((d % w) * a) \div w)

MulDivRound(d, a, w) ==
  MulDiv(d, a, w) + (IF 2 * (((d % w) * a) % w) >= w THEN 1 ELSE 0)

NoEvent ==
  [exists |-> FALSE, status |-> "none", winningSide |-> "none", lockTime |-> 0,
   creatorCommission |-> 0, choices |-> [l \in {} |-> 0]]

NoCalc ==
  [payouts |-> <<>>, refunds |-> <<>>, totalPaid |-> 0, eventRakeAmount |-> 0,
   prizePoolRake |-> 0, distributionPool |-> 0, totalPool |-> 0, winningPool |-> 0]

NoLoc ==
  [userId |-> "none", eventId |-> "none", choiceLetter |-> "none", amount |-> 0,
   balance |-> 0, rows |-> <<>>, calc |-> NoCalc, requestId |-> 0,
   tag |-> "none", outcome |-> "none", available |-> 0,
   uuid |-> <<>>, buffer |-> <<>>, text |-> <<>>]

\* a handler that is not inside an operation
Idle(p) == pc[p] = "idle"

\* the handler returns (or throws): only the outcome survives the call
Return(p, outcome, available) ==
  /\ pc' = [pc EXCEPT ![p] = "idle"]
  /\ loc' = [loc EXCEPT ![p] = [NoLoc EXCEPT !.outcome = outcome, !.available = available]]

Goto(p, label, locals) ==
  /\ pc' = [pc EXCEPT ![p] = label]
  /\ loc' = [loc EXCEPT ![p] = locals]

LedgerRow(userId, amount, balanceBefore, transactionType, referenceType, referenceId, tag) ==
  [userId |-> userId, amount |-> amount, balanceBefore |-> balanceBefore,
   balanceAfter |-> balanceBefore + amount, transactionType |-> transactionType,
   referenceType |-> referenceType, referenceId |-> referenceId, tag |-> tag,
   createdAt |-> IF tag = "Daily free chips" THEN now ELSE 0]

\* ------------------------------------------------- BalanceService.getUserBalances
\* variant: a cashout row of any sign is added to the won chips
Classify_CashoutAnySign(acc, tx) ==
  CASE tx.transactionType \in {"deposit", "chips_buy"} ->
         [acc EXCEPT !.purchasedChips = @ + tx.amount]
    [] tx.transactionType \in {"bet_won", "prize_won"} ->
         [acc EXCEPT !.wonChips = @ + tx.amount]
    [] tx.transactionType = "referral_reward" ->
         [acc EXCEPT !.freeChips = @ + tx.amount]
    [] tx.transactionType = "bet_placed" ->
         IF tx.amount < 0 THEN [acc EXCEPT !.lockedChips = @ + Abs(tx.amount)] ELSE acc
    [] tx.transactionType = "cashout" -> [acc EXCEPT !.wonChips = @ + tx.amount]
    [] OTHER -> acc

\* one iteration of the switch over tx.transactionType
Classify(acc, tx) ==
  CASE tx.transactionType \in {"deposit", "chips_buy"} ->
         [acc EXCEPT !.purchasedChips = @ + tx.amount]
    [] tx.transactionType \in {"bet_won", "prize_won"} ->
         [acc EXCEPT !.wonChips = @ + tx.amount]
    [] tx.transactionType = "referral_reward" ->
         [acc EXCEPT !.freeChips = @ + tx.amount]
    [] tx.transactionType = "bet_placed" ->
         IF tx.amount < 0 THEN [acc EXCEPT !.lockedChips = @ + Abs(tx.amount)] ELSE acc
    [] tx.transactionType = "cashout" ->
         IF tx.amount < 0 THEN [acc EXCEPT !.wonChips = @ + tx.amount] ELSE acc
    [] OTHER -> acc

RECURSIVE ScanLedger(_, _)
ScanLedger(transactions, acc) ==
  IF transactions = <<>> THEN acc
  ELSE ScanLedger(Tail(transactions), Classify(acc, Head(transactions)))

\* prisma.ledger.findMany({where: {userId, currency: 'chips'}, orderBy: createdAt asc})
UserTransactions(led, userId) == led[userId]

RECURSIVE SumLen(_, _)
SumLen(led, users) ==
  IF users = {} THEN 0
  ELSE LET u == CHOOSE x \in users : TRUE IN Len(led[u]) + SumLen(led, users \ {u})

LedgerSize == SumLen(ledger, DOMAIN ledger)

\* ledger.create for one row, and for the rows a transaction writes in order
AppendRow(led, row) == [led EXCEPT ![row.userId] = Append(@, row)]

AppendRows(led, rows) ==
  [u \in DOMAIN led |-> led[u] \o SelectSeq(rows, LAMBDA r : r.userId = u)]

\* prisma.eventBet.aggregate({where: {userId, status: 'active'}, _sum: {amount}})
ActiveBetsSum(bs, userId) ==
  SumAmounts(SelectSeq(bs, LAMBDA b : b.userId = userId /\ b.status = "active"))

\* variant: lockedChips as accumulated from the bet_placed rows of the ledger
BalancesOf_LedgerLocked(led, bs, userId) ==
  LET scan == ScanLedger(UserTransactions(led, userId),
                         [purchasedChips |-> 0, wonChips |-> 0, freeChips |-> 0, lockedChips |-> 0])
      purchasedChips == Max(0, scan.purchasedChips)
      wonChips == Max(0, scan.wonChips)
      freeChips == Max(0, scan.freeChips)
      lockedChips == Max(0, scan.lockedChips)
  IN [purchasedChips |-> purchasedChips, wonChips |-> wonChips, freeChips |-> freeChips,
      lockedChips |-> lockedChips, totalChips |-> purchasedChips + wonChips + freeChips]

BalancesOf(led, bs, userId) ==
  LET scan == ScanLedger(UserTransactions(led, userId),
                         [purchasedChips |-> 0, wonChips |-> 0, freeChips |-> 0, lockedChips |-> 0])
      purchasedChips == Max(0, scan.purchasedChips)
      wonChips == Max(0, scan.wonChips)
      freeChips == Max(0, scan.freeChips)
      lockedChips == Max(0, ActiveBetsSum(bs, userId))
  IN [purchasedChips |-> purchasedChips, wonChips |-> wonChips, freeChips |-> freeChips,
      lockedChips |-> lockedChips, totalChips |-> purchasedChips + wonChips + freeChips]

getUserBalances(userId) == BalancesOf(ledger, bets, userId)

\* BalanceService.deductChips: the breakdown of an amount over the balances in
\* the order free, purchased, won; it writes nothing, and no operation calls it
deductChips(balances, amount) ==
  LET fromFree == IF amount > 0 /\ balances.freeChips > 0
                    THEN Min(amount, balances.freeChips) ELSE 0
      afterFree == amount - fromFree
      fromPurchased == IF afterFree > 0 /\ balances.purchasedChips > 0
                         THEN Min(afterFree, balances.purchasedChips) ELSE 0
      afterPurchased == afterFree - fromPurchased
      fromWon == IF afterPurchased > 0 /\ balances.wonChips > 0
                   THEN Min(afterPurchased, balances.wonChips) ELSE 0
  IN [free |-> fromFree, purchased |-> fromPurchased, won |-> fromWon,
      remaining |-> afterPurchased - fromWon]

\* -------------------------------------------------------------------- Init
Init ==
  /\ now = 0
  /\ events = [e \in EventIds |-> NoEvent]
  /\ bets = <<>>
  /\ payouts = <<>>
  /\ cashOuts = <<>>
  /\ ledger = [u \in Users |-> <<>>]
  /\ sent = <<>>
  /\ pc = [p \in Procs |-> "idle"]
  /\ loc = [p \in Procs |-> NoLoc]

\* ---------------------------------------------------------------- the clock
Tick ==
  /\ now < MaxNow
  /\ now' = now + 1
  /\ UNCHANGED <<db, pc, loc>>

\* ------------------------------------------------ EventService.createEvent
\* createEventSchema: lockTime in the future, eventRake within [1%, 5%]
createEvent(p, e, lockTime, eventRake) ==
  /\ Idle(p)
  /\ ~events[e].exists
  /\ lockTime > now
  /\ events' = [events EXCEPT ![e] =
       [exists |-> TRUE, status |-> "active", winningSide |-> "none", lockTime |-> lockTime,
        creatorCommission |-> eventRake, choices |-> [l \in EventChoices |-> 0]]]
  /\ Return(p, "ok", 0)
  /\ UNCHANGED <<now, bets, payouts, cashOuts, ledger, sent>>

\* --------------------------------------------------- BetService.placeBet
\* placeBetSchema, then event lookup and the status, lock-time and choice checks
placeBet_FindEvent(p, userId, e, choiceLetter, amount) ==
  /\ Idle(p)
  /\ UNCHANGED <<now, db>>
  /\ LET event == events[e] IN
     IF amount < Chips(MIN_BET_AMOUNT) \/ amount > Chips(MAX_BET_AMOUNT)
          \/ choiceLetter \notin VALID_CHOICE_LETTERS
       THEN Return(p, "ValidationError", 0)
     ELSE IF ~event.exists THEN Return(p, "Event not found", 0)
     ELSE IF event.status # "active" THEN Return(p, "Event is not accepting bets", 0)
     ELSE IF now >= event.lockTime THEN Return(p, "Betting is locked for this event", 0)
     ELSE IF choiceLetter \notin DOMAIN event.choices THEN Return(p, "Invalid choice", 0)
     ELSE Goto(p, "placeBet_check",
               [NoLoc EXCEPT !.userId = userId, !.eventId = e,
                             !.choiceLetter = choiceLetter, !.amount = amount])

placeBet_CheckBalance_Unchecked(p) ==
  /\ pc[p] = "placeBet_check"
  /\ UNCHANGED <<now, db>>
  /\ Goto(p, "placeBet_read", loc[p])

\* const balances = await getUserBalances(userId); if (balances.totalChips < amount) throw
placeBet_CheckBalance(p) ==
  /\ pc[p] = "placeBet_check"
  /\ UNCHANGED <<now, db>>
  /\ LET balances == getUserBalances(loc[p].userId) IN
     IF balances.totalChips < loc[p].amount
       THEN Return(p, "Insufficient balance", balances.totalChips)
       ELSE Goto(p, "placeBet_read", loc[p])

\* const currentBalance = await getUserBalances(userId)
placeBet_ReadBalance(p) ==
  /\ pc[p] = "placeBet_read"
  /\ UNCHANGED <<now, db>>
  /\ Goto(p, "placeBet_tx",
          [loc[p] EXCEPT !.balance = getUserBalances(loc[p].userId).totalChips])

placeBet_Tx_NoDebit(p) ==
  /\ pc[p] = "placeBet_tx"
  /\ LET l == loc[p]
         betId == Len(bets) + 1
     IN /\ bets' = Append(bets, [id |-> betId, userId |-> l.userId, eventId |-> l.eventId,
                                  choiceLetter |-> l.choiceLetter, amount |-> l.amount,
                                  status |-> "active"])
        /\ events' = [events EXCEPT ![l.eventId].choices[l.choiceLetter] = @ + l.amount]
        /\ UNCHANGED ledger
  /\ Return(p, "ok", 0)
  /\ UNCHANGED <<now, payouts, cashOuts, sent>>

\* prisma.$transaction: eventBet.create, eventChoice.update(increment), ledger.create
placeBet_Tx(p) ==
  /\ pc[p] = "placeBet_tx"
  /\ LET l == loc[p]
         betId == Len(bets) + 1
     IN /\ bets' = Append(bets, [id |-> betId, userId |-> l.userId, eventId |-> l.eventId,
                                  choiceLetter |-> l.choiceLetter, amount |-> l.amount,
                                  status |-> "active"])
        /\ events' = [events EXCEPT ![l.eventId].choices[l.choiceLetter] = @ + l.amount]
        /\ ledger' = AppendRow(ledger, LedgerRow(l.userId, 0 - l.amount, l.balance,
                                              "bet_placed", "event_bet", betId, "none"))
  /\ Return(p, "ok", 0)
  /\ UNCHANGED <<now, payouts, cashOuts, sent>>

\* ------------------------------------------------ WalletService.depositUSDC
\* findFirst({userId, description contains signature, type deposit}), then the
\* on-chain verification (verified is the verifier's answer)
depositUSDC_Check(p, userId, transactionSignature, amount, verified) ==
  /\ Idle(p)
  /\ UNCHANGED <<now, db>>
  /\ LET existing == \E i \in DOMAIN ledger[userId] :
                        /\ ledger[userId][i].tag = transactionSignature
                        /\ ledger[userId][i].transactionType = "deposit"
     IN IF existing THEN Return(p, "Transaction already processed", 0)
        ELSE IF ~verified THEN Return(p, "Invalid or failed transaction", 0)
        ELSE Goto(p, "depositUSDC_read",
                  [NoLoc EXCEPT !.userId = userId, !.tag = transactionSignature,
                                !.amount = amount])

depositUSDC_ReadBalance(p) ==
  /\ pc[p] = "depositUSDC_read"
  /\ UNCHANGED <<now, db>>
  /\ Goto(p, "depositUSDC_create",
          [loc[p] EXCEPT !.balance = getUserBalances(loc[p].userId).totalChips])

depositUSDC_Create(p) ==
  /\ pc[p] = "depositUSDC_create"
  /\ ledger' = AppendRow(ledger, LedgerRow(loc[p].userId, loc[p].amount, loc[p].balance,
                                        "deposit", "none", 0, loc[p].tag))
  /\ Return(p, "ok", 0)
  /\ UNCHANGED <<now, events, bets, payouts, cashOuts, sent>>

\* ------------------------------------- BalanceService.canClaimFreeChips / claimFreeChips
DailyClaims(userId) ==
  SelectSeq(ledger[userId], LAMBDA tx : /\ tx.transactionType = "referral_reward"
                                        /\ tx.tag = "Daily free chips")

canClaimFreeChips(userId) ==
  LET claims == DailyClaims(userId) IN
  IF claims = <<>> THEN TRUE
  ELSE (now - claims[Len(claims)].createdAt) * 24 >= FREE_CHIPS_COOLDOWN_HOURS

claimFreeChips_Check(p, userId) ==
  /\ Idle(p)
  /\ UNCHANGED <<now, db>>
  /\ IF ~canClaimFreeChips(userId)
       THEN Return(p, "Free chips can be claimed again later", 0)
       ELSE Goto(p, "claimFreeChips_read", [NoLoc EXCEPT !.userId = userId])

claimFreeChips_ReadBalance(p) ==
  /\ pc[p] = "claimFreeChips_read"
  /\ UNCHANGED <<now, db>>
  /\ Goto(p, "claimFreeChips_create",
          [loc[p] EXCEPT !.balance = getUserBalances(loc[p].userId).totalChips])

claimFreeChips_Create(p) ==
  /\ pc[p] = "claimFreeChips_create"
  /\ ledger' = AppendRow(ledger, LedgerRow(loc[p].userId, Chips(FREE_CHIPS_DAILY_AMOUNT),
                                        loc[p].balance, "referral_reward", "none", 0,
                                        "Daily free chips"))
  /\ Return(p, "ok", 0)
  /\ UNCHANGED <<now, events, bets, payouts, cashOuts, sent>>

\* ------------------------------------- EventService.updateEvent / cancelEvent
updateEvent_Find(p, e, status, lockTime) ==
  /\ Idle(p)
  /\ UNCHANGED <<now, db>>
  /\ IF ~events[e].exists THEN Return(p, "Event not found", 0)
     ELSE IF events[e].status \in {"completed", "paid_out"}
       THEN Return(p, "Cannot update completed or paid out event", 0)
     ELSE Goto(p, "updateEvent_write",
               [NoLoc EXCEPT !.eventId = e, !.tag = status, !.amount = lockTime])

\* input.status and input.lockTime are optional: "none" and 0 leave the column alone
updateEvent_Write(p) ==
  /\ pc[p] = "updateEvent_write"
  /\ events' = [events EXCEPT ![loc[p].eventId] =
       [@ EXCEPT !.status = IF loc[p].tag = "none" THEN @ ELSE loc[p].tag,
                 !.lockTime = IF loc[p].amount = 0 THEN @ ELSE loc[p].amount]]
  /\ Return(p, "ok", 0)
  /\ UNCHANGED <<now, bets, payouts, cashOuts, ledger, sent>>

cancelEvent_Find(p, e) ==
  /\ Idle(p)
  /\ UNCHANGED <<now, db>>
  /\ IF ~events[e].exists THEN Return(p, "Event not found", 0)
     ELSE IF events[e].status \in {"completed", "paid_out", "cancelled"}
       THEN Return(p, "Cannot cancel this event", 0)
     ELSE Goto(p, "cancelEvent_write", [NoLoc EXCEPT !.eventId = e])

cancelEvent_Write(p) ==
  /\ pc[p] = "cancelEvent_write"
  /\ events' = [events EXCEPT ![loc[p].eventId].status = "cancelled"]
  /\ Return(p, "ok", 0)
  /\ UNCHANGED <<now, bets, payouts, cashOuts, ledger, sent>>

\* ------------------------------------------- PayoutService.calculatePayouts
RECURSIVE SumPools(_, _)
SumPools(choices, letters) ==
  IF letters = {} THEN 0
  ELSE LET l == CHOOSE x \in letters : TRUE
       IN choices[l] + SumPools(choices, letters \ {l})

\* event.bets with where: {status: 'active'}, as row ids
ActiveBetIds(e) ==
  SelectSeq(RowIds(bets), LAMBDA i : bets[i].eventId = e /\ bets[i].status = "active")

calculatePayouts(e, winningSide) ==
  LET event == events[e]
      activeBets == ActiveBetIds(e)
      totalPool == SumPools(event.choices, DOMAIN event.choices)
      winningPool == event.choices[winningSide]
      eventRakeAmount == MulDiv(totalPool, event.creatorCommission, 100)
      poolAfterEventRake == totalPool - eventRakeAmount
      prizePoolRakeAmount == MulDiv(poolAfterEventRake, COMPANY_PRIZE_POOL_RAKE, 1000)
      distributionPool == poolAfterEventRake - prizePoolRakeAmount
      winningBets == SelectSeq(activeBets, LAMBDA i : bets[i].choiceLetter = winningSide)
      payoutList == [k \in 1..Len(winningBets) |->
                       [userId |-> bets[winningBets[k]].userId,
                        betId |-> winningBets[k],
                        amount |-> MulDivRound(distributionPool,
                                               bets[winningBets[k]].amount \div Unit,
                                               winningPool \div Unit)]]
  IN IF winningPool = 0
       THEN [NoCalc EXCEPT
               !.refunds = [k \in 1..Len(activeBets) |->
                              [userId |-> bets[activeBets[k]].userId,
                               betId |-> activeBets[k],
                               amount |-> bets[activeBets[k]].amount]],
               !.totalPool = totalPool]
       ELSE [payouts |-> payoutList, refunds |-> <<>>, totalPaid |-> SumAmounts(payoutList),
             eventRakeAmount |-> eventRakeAmount, prizePoolRake |-> prizePoolRakeAmount,
             distributionPool |-> distributionPool, totalPool |-> totalPool,
             winningPool |-> winningPool]

\* ----------------------------------------------- PayoutService.resolveEvent
resolveEvent_Find_AnyStatus(p, e, winningSide) ==
  /\ Idle(p)
  /\ UNCHANGED <<now, db>>
  /\ IF winningSide \notin VALID_CHOICE_LETTERS THEN Return(p, "ValidationError", 0)
     ELSE IF ~events[e].exists THEN Return(p, "Event not found", 0)
     ELSE Goto(p, "resolveEvent_calc",
               [NoLoc EXCEPT !.eventId = e, !.choiceLetter = winningSide])

resolveEvent_Find(p, e, winningSide) ==
  /\ Idle(p)
  /\ UNCHANGED <<now, db>>
  /\ IF winningSide \notin VALID_CHOICE_LETTERS THEN Return(p, "ValidationError", 0)
     ELSE IF ~events[e].exists THEN Return(p, "Event not found", 0)
     ELSE IF events[e].status \in {"completed", "paid_out"}
       THEN Return(p, "Event already resolved", 0)
     ELSE IF events[e].status \notin {"locked", "active"}
       THEN Return(p, "Event must be locked or active to resolve", 0)
     ELSE Goto(p, "resolveEvent_calc",
               [NoLoc EXCEPT !.eventId = e, !.choiceLetter = winningSide])

resolveEvent_Calculate(p) ==
  /\ pc[p] = "resolveEvent_calc"
  /\ UNCHANGED <<now, db>>
  /\ IF loc[p].choiceLetter \notin DOMAIN events[loc[p].eventId].choices
       THEN Return(p, "Invalid winning side", 0)
       ELSE Goto(p, "resolveEvent_tx",
                 [loc[p] EXCEPT !.calc = calculatePayouts(loc[p].eventId, loc[p].choiceLetter)])

\* prisma.$transaction: event.update, two eventBet.updateMany, eventPayout.create
\* per calculated payout, eventBet.update per calculated refund
resolveEvent_Tx(p) ==
  /\ pc[p] = "resolveEvent_tx"
  /\ LET e == loc[p].eventId
         winningSide == loc[p].choiceLetter
         calc == loc[p].calc
         refundIds == {calc.refunds[k].betId : k \in DOMAIN calc.refunds}
     IN /\ events' = [events EXCEPT ![e].status = "completed", ![e].winningSide = winningSide]
        /\ bets' = [i \in DOMAIN bets |->
             IF i \in refundIds THEN [bets[i] EXCEPT !.status = "refunded"]
             ELSE IF bets[i].eventId = e /\ bets[i].status = "active"
               THEN [bets[i] EXCEPT !.status =
                       IF bets[i].choiceLetter = winningSide THEN "won" ELSE "lost"]
             ELSE bets[i]]
        /\ payouts' = payouts \o
             [k \in 1..Len(calc.payouts) |->
                [id |-> Len(payouts) + k, eventId |-> e, userId |-> calc.payouts[k].userId,
                 amount |-> calc.payouts[k].amount, status |-> "pending"]]
  /\ Return(p, "ok", 0)
  /\ UNCHANGED <<now, cashOuts, ledger, sent>>

\* ------------------------------------------ PayoutService.distributePayouts
\* variant: every payout row of the event, whatever its status
PendingPayoutIds_AnyStatus(e) ==
  SelectSeq(RowIds(payouts), LAMBDA i : payouts[i].eventId = e)

PendingPayoutIds(e) ==
  SelectSeq(RowIds(payouts), LAMBDA i : payouts[i].eventId = e /\ payouts[i].status = "pending")

distributePayouts_Find(p, e) ==
  /\ Idle(p)
  /\ UNCHANGED <<now, db>>
  /\ IF PendingPayoutIds(e) = <<>>
       THEN Return(p, "No pending payouts for this event", 0)
       ELSE Goto(p, "distributePayouts_tx",
                 [NoLoc EXCEPT !.eventId = e, !.rows = PendingPayoutIds(e)])

\* prisma.$transaction: per payout read of the committed balance, ledger.create,
\* eventPayout.update; then event.update to paid_out
distributePayouts_Tx(p) ==
  /\ pc[p] = "distributePayouts_tx"
  /\ LET rows == loc[p].rows IN
     /\ ledger' = AppendRows(ledger,
          [k \in 1..Len(rows) |->
             LedgerRow(payouts[rows[k]].userId, payouts[rows[k]].amount,
                       getUserBalances(payouts[rows[k]].userId).totalChips,
                       "bet_won", "event_payout", rows[k], "none")])
     /\ payouts' = [i \in DOMAIN payouts |->
                      IF i \in Range(rows) THEN [payouts[i] EXCEPT !.status = "completed"]
                      ELSE payouts[i]]
     /\ events' = [events EXCEPT ![loc[p].eventId].status = "paid_out"]
  /\ Return(p, "ok", 0)
  /\ UNCHANGED <<now, bets, cashOuts, sent>>

\* ------------------------------------------------ PayoutService.refundEvent
refundEvent_Find(p, e) ==
  /\ Idle(p)
  /\ UNCHANGED <<now, db>>
  /\ IF ~events[e].exists THEN Return(p, "Event not found", 0)
     ELSE IF events[e].status # "cancelled"
       THEN Return(p, "Event must be cancelled to process refunds", 0)
     ELSE IF ActiveBetIds(e) = <<>> THEN Return(p, "ok", 0)
     ELSE Goto(p, "refundEvent_tx", [NoLoc EXCEPT !.eventId = e, !.rows = ActiveBetIds(e)])

refundEvent_Tx(p) ==
  /\ pc[p] = "refundEvent_tx"
  /\ LET rows == loc[p].rows IN
     /\ ledger' = AppendRows(ledger,
          [k \in 1..Len(rows) |->
             LedgerRow(bets[rows[k]].userId, bets[rows[k]].amount,
                       getUserBalances(bets[rows[k]].userId).totalChips,
                       "bet_won", "event_refund", rows[k], "none")])
     /\ bets' = [i \in DOMAIN bets |->
                   IF i \in Range(rows) THEN [bets[i] EXCEPT !.status = "refunded"]
                   ELSE bets[i]]
  /\ Return(p, "ok", 0)
  /\ UNCHANGED <<now, events, payouts, cashOuts, sent>>

\* ------------------------------------------ WalletService.requestWithdrawal
\* variant: the check compares the amount with totalChips
requestWithdrawal_Check_Total(p, userId, amount) ==
  /\ Idle(p)
  /\ UNCHANGED <<now, db>>
  /\ LET balances == getUserBalances(userId) IN
     IF amount < Chips(1) THEN Return(p, "ValidationError", 0)
     ELSE IF balances.totalChips < amount
       THEN Return(p, "Insufficient won chips", balances.wonChips)
     ELSE Goto(p, "requestWithdrawal_create",
               [NoLoc EXCEPT !.userId = userId, !.amount = amount])

requestWithdrawal_Check(p, userId, amount) ==
  /\ Idle(p)
  /\ UNCHANGED <<now, db>>
  /\ LET balances == getUserBalances(userId) IN
     IF amount < Chips(1) THEN Return(p, "ValidationError", 0)
     ELSE IF balances.wonChips < amount
       THEN Return(p, "Insufficient won chips", balances.wonChips)
     ELSE Goto(p, "requestWithdrawal_create",
               [NoLoc EXCEPT !.userId = userId, !.amount = amount])

requestWithdrawal_CreateRequest(p) ==
  /\ pc[p] = "requestWithdrawal_create"
  /\ cashOuts' = Append(cashOuts, [id |-> Len(cashOuts) + 1, userId |-> loc[p].userId,
                                   amount |-> loc[p].amount, status |-> "pending"])
  /\ sent' = Append(sent, 0)
  /\ Goto(p, "requestWithdrawal_read", [loc[p] EXCEPT !.requestId = Len(cashOuts) + 1])
  /\ UNCHANGED <<now, events, bets, payouts, ledger>>

requestWithdrawal_ReadBalance(p) ==
  /\ pc[p] = "requestWithdrawal_read"
  /\ UNCHANGED <<now, db>>
  /\ Goto(p, "requestWithdrawal_ledger",
          [loc[p] EXCEPT !.balance = getUserBalances(loc[p].userId).totalChips])

requestWithdrawal_Ledger(p) ==
  /\ pc[p] = "requestWithdrawal_ledger"
  /\ ledger' = AppendRow(ledger, LedgerRow(loc[p].userId, 0 - loc[p].amount, loc[p].balance,
                                        "cashout", "cashout_request", loc[p].requestId, "none"))
  /\ Return(p, "ok", 0)
  /\ UNCHANGED <<now, events, bets, payouts, cashOuts, sent>>

\* ------------------------------------------ WalletService.processWithdrawal
processWithdrawal_Find(p, requestId) ==
  /\ Idle(p)
  /\ UNCHANGED <<now, db>>
  /\ IF requestId \notin DOMAIN cashOuts THEN Return(p, "Withdrawal request not found", 0)
     ELSE IF cashOuts[requestId].status # "pending"
       THEN Return(p, "Withdrawal request already processed", 0)
     ELSE Goto(p, "processWithdrawal_send",
               [NoLoc EXCEPT !.requestId = requestId, !.userId = cashOuts[requestId].userId,
                             !.amount = cashOuts[requestId].amount])

\* sendSOL / sendUSDC: the treasury transfer goes through or throws
processWithdrawal_Send(p, transferred) ==
  /\ pc[p] = "processWithdrawal_send"
  /\ UNCHANGED <<now, events, bets, payouts, cashOuts, ledger>>
  /\ IF transferred
       THEN /\ sent' = [sent EXCEPT ![loc[p].requestId] = @ + 1]
            /\ Goto(p, "processWithdrawal_complete", loc[p])
       ELSE /\ UNCHANGED sent
            /\ Goto(p, "processWithdrawal_reject", loc[p])

\* cashOutRequest.update to completed, still inside the try block: when the
\* update throws, control passes to the catch block
processWithdrawal_Complete(p, updated) ==
  /\ pc[p] = "processWithdrawal_complete"
  /\ UNCHANGED <<now, events, bets, payouts, ledger, sent>>
  /\ IF updated
       THEN /\ cashOuts' = [cashOuts EXCEPT ![loc[p].requestId].status = "completed"]
            /\ Return(p, "ok", 0)
       ELSE /\ UNCHANGED cashOuts
            /\ Goto(p, "processWithdrawal_reject", loc[p])

processWithdrawal_Reject(p) ==
  /\ pc[p] = "processWithdrawal_reject"
  /\ cashOuts' = [cashOuts EXCEPT ![loc[p].requestId].status = "rejected"]
  /\ Goto(p, "processWithdrawal_read", loc[p])
  /\ UNCHANGED <<now, events, bets, payouts, ledger, sent>>

processWithdrawal_ReadBalance(p) ==
  /\ pc[p] = "processWithdrawal_read"
  /\ UNCHANGED <<now, db>>
  /\ Goto(p, "processWithdrawal_refund",
          [loc[p] EXCEPT !.balance = getUserBalances(loc[p].userId).totalChips])

processWithdrawal_Refund(p) ==
  /\ pc[p] = "processWithdrawal_refund"
  /\ ledger' = AppendRow(ledger, LedgerRow(loc[p].userId, loc[p].amount, loc[p].balance,
                                        "bet_won", "cashout_request_refund",
                                        loc[p].requestId, "none"))
  /\ Return(p, "Failed to process withdrawal. Chips have been refunded.", 0)
  /\ UNCHANGED <<now, events, bets, payouts, cashOuts, sent>>

\* ------------------------------------------------------------- utils/uuid.ts
\* strings are sequences of characters, buffers are sequences of bytes
LowerHex == <<"0", "1", "2", "3", "4", "5", "6", "7", "8", "9", "a", "b", "c", "d", "e", "f">>
UpperHex == <<"0", "1", "2", "3", "4", "5", "6", "7", "8", "9", "A", "B", "C", "D", "E", "F">>

IsHex(c) == c \in Range(LowerHex) \cup Range(UpperHex)

HexValue(c) ==
  (CHOOSE k \in 1..16 : LowerHex[k] = c \/ UpperHex[k] = c) - 1

\* uuid.replace(/-/g, '')
RemoveHyphens(str) == SelectSeq(str, LAMBDA c : c # "-")

\* Buffer.from(hex, 'hex'): one byte per pair of hex digits, up to the first
\* pair that is not two hex digits
RECURSIVE BufferFromHex(_)
BufferFromHex(hex) ==
  IF Len(hex) < 2 \/ ~IsHex(hex[1]) \/ ~IsHex(hex[2]) THEN <<>>
  ELSE <<16 * HexValue(hex[1]) + HexValue(hex[2])>> \o BufferFromHex(SubSeq(hex, 3, Len(hex)))

\* buffer.toString('hex'): two lowercase hex digits per byte
RECURSIVE BufferToHex(_)
BufferToHex(buffer) ==
  IF buffer = <<>> THEN <<>>
  ELSE <<LowerHex[(Head(buffer) \div 16) + 1], LowerHex[(Head(buffer) % 16) + 1]>>
         \o BufferToHex(Tail(buffer))

\* String.prototype.substring(start, end) for 0 <= start <= end
Substring(str, start, end) == SubSeq(str, Min(start, Len(str)) + 1, Min(end, Len(str)))

\* variant: the hyphens stay in the string that is decoded
uuidToBuffer_KeepHyphens(uuid) == BufferFromHex(uuid)

uuidToBuffer(uuid) == BufferFromHex(RemoveHyphens(uuid))

bufferToUuid(buffer) ==
  LET hex == BufferToHex(buffer) IN
  Substring(hex, 0, 8) \o <<"-">> \o Substring(hex, 8, 12) \o <<"-">>
    \o Substring(hex, 12, 16) \o <<"-">> \o Substring(hex, 16, 20) \o <<"-">>
    \o Substring(hex, 20, 32)

\* a handler takes an id from the request, converts it for the store and
\* converts it back for the response
convert_Parse(p, uuid) ==
  /\ Idle(p)
  /\ UNCHANGED <<now, db>>
  /\ Goto(p, "convert_toBuffer", [NoLoc EXCEPT !.uuid = uuid])

convert_ToBuffer(p) ==
  /\ pc[p] = "convert_toBuffer"
  /\ UNCHANGED <<now, db>>
  /\ Goto(p, "convert_toUuid", [loc[p] EXCEPT !.buffer = uuidToBuffer(loc[p].uuid)])

convert_ToUuid(p) ==
  /\ pc[p] = "convert_toUuid"
  /\ UNCHANGED <<now, db>>
  /\ Goto(p, "idle", [loc[p] EXCEPT !.text = bufferToUuid(loc[p].buffer), !.outcome = "ok"])

\* ------------------------------------------------ UserController.getBalance
getBalance(p, userId) ==
  /\ Idle(p)
  /\ UNCHANGED <<now, db>>
  /\ Return(p, "ok", getUserBalances(userId).totalChips)

\* ------------------------------------------------------ a store call throws
\* Any await on the store can reject (connection loss, transaction timeout);
\* outside processWithdrawal's try block the handler then ends with the
\* error, and a $transaction block in progress is rolled back as a whole.
TryBlock == {"processWithdrawal_send", "processWithdrawal_complete"}

Throw(p) ==
  /\ pc[p] \notin {"idle"} \cup TryBlock
  /\ Return(p, "Internal server error", 0)
  /\ UNCHANGED <<now, db>>

\* ------------------------------------------------------------ specifications
\* the later steps of the operations, by service
EventSteps(p) ==
  \/ updateEvent_Write(p)
  \/ cancelEvent_Write(p)

WalletSteps(p) ==
  \/ depositUSDC_ReadBalance(p)
  \/ depositUSDC_Create(p)
  \/ claimFreeChips_ReadBalance(p)
  \/ claimFreeChips_Create(p)
  \/ requestWithdrawal_CreateRequest(p)
  \/ requestWithdrawal_ReadBalance(p)
  \/ requestWithdrawal_Ledger(p)
  \/ \E transferred \in BOOLEAN : processWithdrawal_Send(p, transferred)
  \/ \E updated \in BOOLEAN : processWithdrawal_Complete(p, updated)
  \/ processWithdrawal_Reject(p)
  \/ processWithdrawal_ReadBalance(p)
  \/ processWithdrawal_Refund(p)

BetSteps(p) ==
  \/ placeBet_CheckBalance(p)
  \/ placeBet_ReadBalance(p)
  \/ placeBet_Tx(p)

PayoutSteps(p) ==
  \/ resolveEvent_Calculate(p)
  \/ resolveEvent_Tx(p)
  \/ distributePayouts_Tx(p)
  \/ refundEvent_Tx(p)

\* ---- Spec: wallet, betting, settlement and refund operations, requests served
\* one at a time, from the empty store, within one clock tick (the event locks
\* later)
DepositAmounts == {Chips(100)}
BetAmounts == {Chips(60)}
WithdrawAmounts == {Chips(60)}
EventRakes == {1}

Start(p) ==
  \/ \E e \in EventIds, eventRake \in EventRakes : createEvent(p, e, MaxNow + 1, eventRake)
  \/ \E e \in EventIds : cancelEvent_Find(p, e)
  \/ \E u \in Users, sig \in Signatures, a \in DepositAmounts, verified \in BOOLEAN :
       LedgerSize < MaxLedger /\ depositUSDC_Check(p, u, sig, a, verified)
  \/ \E u \in Users : LedgerSize < MaxLedger /\ claimFreeChips_Check(p, u)
  \/ \E u \in Users, e \in EventIds, c \in ChoiceInputs, a \in BetAmounts :
       /\ LedgerSize < MaxLedger
       /\ placeBet_FindEvent(p, u, e, c, a)
  \/ \E e \in EventIds, w \in ChoiceInputs : resolveEvent_Find(p, e, w)
  \/ \E e \in EventIds : distributePayouts_Find(p, e)
  \/ \E e \in EventIds : refundEvent_Find(p, e)
  \/ \E u \in Users, a \in WithdrawAmounts :
       Len(cashOuts) < MaxCashOuts /\ requestWithdrawal_Check(p, u, a)
  \/ \E r \in 1..MaxCashOuts :
       /\ r \in DOMAIN sent => sent[r] < MaxSent
       /\ processWithdrawal_Find(p, r)

Next ==
  \/ Start(1)
  \/ cancelEvent_Write(1)
  \/ WalletSteps(1)
  \/ BetSteps(1)
  \/ PayoutSteps(1)
  \/ Throw(1)

Spec == Init /\ [][Next]_vars

\* ---- SpecSettle: the life of one event (bets, status updates, cancellation,
\* refund, resolution, distribution), requests served one at a time, from the
\* store in which both users have deposited and the event has been created
SettleDeposit == Chips(1000)
SettleOrders ==
  {[userId |-> "u1", amount |-> Chips(1000)], [userId |-> "u2", amount |-> Chips(500)],
   [userId |-> "u1", amount |-> Chips(60)]}

InitSettle ==
  /\ now = 0
  /\ \E eventRake \in EventRakes :
       events = [e \in EventIds |->
          [exists |-> TRUE, status |-> "active", winningSide |-> "none",
           lockTime |-> MaxNow + 1, creatorCommission |-> eventRake,
           choices |-> [l \in EventChoices |-> 0]]]
  /\ bets = <<>>
  /\ payouts = <<>>
  /\ cashOuts = <<>>
  /\ ledger = [u \in Users |->
       <<[userId |-> u, amount |-> SettleDeposit, balanceBefore |-> 0,
          balanceAfter |-> SettleDeposit, transactionType |-> "deposit",
          referenceType |-> "none", referenceId |-> 0, tag |-> "s1", createdAt |-> 0]>>]
  /\ sent = <<>>
  /\ pc = [p \in Procs |-> "idle"]
  /\ loc = [p \in Procs |-> NoLoc]

StartSettle(p) ==
  \/ \E e \in EventIds, status \in EventStatuses \cup {"none"} :
       updateEvent_Find(p, e, status, 0)
  \/ \E e \in EventIds : cancelEvent_Find(p, e)
  \/ \E o \in SettleOrders, e \in EventIds, c \in ChoiceInputs :
       Len(bets) < MaxSettleBets /\ placeBet_FindEvent(p, o.userId, e, c, o.amount)
  \/ \E e \in EventIds, w \in ChoiceInputs : resolveEvent_Find(p, e, w)
  \/ \E e \in EventIds : distributePayouts_Find(p, e)
  \/ \E e \in EventIds : refundEvent_Find(p, e)

NextSettle ==
  \/ StartSettle(1)
  \/ EventSteps(1)
  \/ BetSteps(1)
  \/ PayoutSteps(1)
  \/ Throw(1)

SpecSettle == InitSettle /\ [][NextSettle]_vars

\* ---- SpecRace: two handlers, each serving one placeBet of 60 chips by the user
\* u1, whose only ledger row is a deposit of 100 chips
InitRace ==
  /\ now = 0
  /\ events = [e \in EventIds |->
       [exists |-> TRUE, status |-> "active", winningSide |-> "none",
        lockTime |-> MaxNow + 1, creatorCommission |-> 1,
        choices |-> [l \in EventChoices |-> 0]]]
  /\ bets = <<>>
  /\ payouts = <<>>
  /\ cashOuts = <<>>
  /\ ledger = [u \in Users |->
       IF u = "u1"
         THEN <<[userId |-> u, amount |-> Chips(100), balanceBefore |-> 0,
                 balanceAfter |-> Chips(100), transactionType |-> "deposit",
                 referenceType |-> "none", referenceId |-> 0, tag |-> "s1", createdAt |-> 0]>>
         ELSE <<>>]
  /\ sent = <<>>
  /\ pc = [p \in Procs |-> "idle"]
  /\ loc = [p \in Procs |-> NoLoc]

NextRace ==
  \E p \in Procs :
    \/ \E e \in EventIds, c \in ChoiceInputs :
         loc[p].outcome = "none" /\ placeBet_FindEvent(p, "u1", e, c, Chips(60))
    \/ BetSteps(p)
    \/ Throw(p)

SpecRace == InitRace /\ [][NextRace]_vars

\* ---- SpecDistribute: two handlers on the settlement of one event, from the
\* store of SpecSettle
NextDistribute ==
  \E p \in Procs :
    \/ \E o \in SettleOrders, e \in EventIds, c \in EventChoices :
         Len(bets) < MaxRaceBets /\ placeBet_FindEvent(p, o.userId, e, c, o.amount)
    \/ \E e \in EventIds, w \in EventChoices : resolveEvent_Find(p, e, w)
    \/ \E e \in EventIds : distributePayouts_Find(p, e)
    \/ BetSteps(p)
    \/ resolveEvent_Calculate(p)
    \/ resolveEvent_Tx(p)
    \/ distributePayouts_Tx(p)
    \/ Throw(p)

SpecDistribute == InitSettle /\ [][NextDistribute]_vars

\* ---- SpecWithdraw: two handlers on the withdrawals of the user u1, from the
\* store in which u1 has deposited 100 chips, bet 60 chips on A and been
\* refunded the bet after the cancellation of the event (60 won chips)
WithdrawalSteps(p) ==
  \/ requestWithdrawal_CreateRequest(p)
  \/ requestWithdrawal_ReadBalance(p)
  \/ requestWithdrawal_Ledger(p)
  \/ \E transferred \in BOOLEAN : processWithdrawal_Send(p, transferred)
  \/ \E updated \in BOOLEAN : processWithdrawal_Complete(p, updated)
  \/ processWithdrawal_Reject(p)
  \/ processWithdrawal_ReadBalance(p)
  \/ processWithdrawal_Refund(p)

InitWithdraw ==
  /\ now = 0
  /\ events = [e \in EventIds |->
       [exists |-> TRUE, status |-> "cancelled", winningSide |-> "none",
        lockTime |-> MaxNow + 1, creatorCommission |-> 1,
        choices |-> [l \in EventChoices |-> IF l = "A" THEN Chips(60) ELSE 0]]]
  /\ bets = <<[id |-> 1, userId |-> "u1", eventId |-> "e1", choiceLetter |-> "A",
               amount |-> Chips(60), status |-> "refunded"]>>
  /\ payouts = <<>>
  /\ cashOuts = <<>>
  /\ ledger = [u \in Users |->
       IF u = "u1"
         THEN <<[userId |-> u, amount |-> Chips(100), balanceBefore |-> 0,
                 balanceAfter |-> Chips(100), transactionType |-> "deposit",
                 referenceType |-> "none", referenceId |-> 0, tag |-> "s1", createdAt |-> 0],
                [userId |-> u, amount |-> 0 - Chips(60), balanceBefore |-> Chips(100),
                 balanceAfter |-> Chips(40), transactionType |-> "bet_placed",
                 referenceType |-> "event_bet", referenceId |-> 1, tag |-> "none",
                 createdAt |-> 0],
                [userId |-> u, amount |-> Chips(60), balanceBefore |-> Chips(100),
                 balanceAfter |-> Chips(160), transactionType |-> "bet_won",
                 referenceType |-> "event_refund", referenceId |-> 1, tag |-> "none",
                 createdAt |-> 0]>>
         ELSE <<>>]
  /\ sent = <<>>
  /\ pc = [p \in Procs |-> "idle"]
  /\ loc = [p \in Procs |-> NoLoc]

NextWithdraw ==
  \E p \in Procs :
    \/ \E a \in WithdrawAmounts :
         Len(cashOuts) < MaxCashOuts /\ requestWithdrawal_Check(p, "u1", a)
    \/ \E r \in 1..MaxCashOuts :
         /\ r \in DOMAIN sent => sent[r] < MaxSent
         /\ processWithdrawal_Find(p, r)
    \/ WithdrawalSteps(p)
    \/ Throw(p)

SpecWithdraw == InitWithdraw /\ [][NextWithdraw]_vars

\* ---- SpecResolve: one handler serving resolveEvent calls beside one handler
\* serving placeBet calls on the same event, from the store of SpecSettle
NextResolve ==
  \/ \E e \in EventIds, w \in EventChoices : resolveEvent_Find(1, e, w)
  \/ resolveEvent_Calculate(1)
  \/ resolveEvent_Tx(1)
  \/ \E o \in SettleOrders, e \in EventIds, c \in EventChoices :
       Len(bets) < MaxRaceBets /\ placeBet_FindEvent(2, o.userId, e, c, o.amount)
  \/ BetSteps(2)
  \/ Throw(1)
  \/ Throw(2)

SpecResolve == InitSettle /\ [][NextResolve]_vars

\* ---- SpecClock: the clock runs beside two handlers that serve placeBet and
\* claimFreeChips calls; the event locks at the first tick, and u1's only
\* ledger row is a deposit of 100 chips
ClockLockTime == 1

ClaimSteps(p) ==
  \/ claimFreeChips_ReadBalance(p)
  \/ claimFreeChips_Create(p)

InitClock ==
  /\ now = 0
  /\ events = [e \in EventIds |->
       [exists |-> TRUE, status |-> "active", winningSide |-> "none",
        lockTime |-> ClockLockTime, creatorCommission |-> 1,
        choices |-> [l \in EventChoices |-> 0]]]
  /\ bets = <<>>
  /\ payouts = <<>>
  /\ cashOuts = <<>>
  /\ ledger = [u \in Users |->
       IF u = "u1"
         THEN <<[userId |-> u, amount |-> Chips(100), balanceBefore |-> 0,
                 balanceAfter |-> Chips(100), transactionType |-> "deposit",
                 referenceType |-> "none", referenceId |-> 0, tag |-> "s1", createdAt |-> 0]>>
         ELSE <<>>]
  /\ sent = <<>>
  /\ pc = [p \in Procs |-> "idle"]
  /\ loc = [p \in Procs |-> NoLoc]

NextClock ==
  \/ Tick
  \/ \E p \in Procs :
       \/ \E e \in EventIds, c \in EventChoices :
            Len(bets) < MaxRaceBets /\ placeBet_FindEvent(p, "u1", e, c, Chips(60))
       \/ \E u \in Users : LedgerSize < MaxLedger /\ claimFreeChips_Check(p, u)
       \/ BetSteps(p)
       \/ ClaimSteps(p)
       \/ Throw(p)

SpecClock == InitClock /\ [][NextClock]_vars

\* ---- SpecBet: placeBet calls with valid and invalid inputs, served one at a
\* time, by u1 whose only ledger row is a deposit of 5 chips and by u2 who has
\* none, on an event that is created, locks and is cancelled along the way
BetInputs == {0, Chips(3), Chips(10), Chips(MAX_BET_AMOUNT + 1)}

InitBet ==
  /\ now = 0
  /\ events = [e \in EventIds |-> NoEvent]
  /\ bets = <<>>
  /\ payouts = <<>>
  /\ cashOuts = <<>>
  /\ ledger = [u \in Users |->
       IF u = "u1"
         THEN <<[userId |-> u, amount |-> Chips(5), balanceBefore |-> 0,
                 balanceAfter |-> Chips(5), transactionType |-> "deposit",
                 referenceType |-> "none", referenceId |-> 0, tag |-> "s1", createdAt |-> 0]>>
         ELSE <<>>]
  /\ sent = <<>>
  /\ pc = [p \in Procs |-> "idle"]
  /\ loc = [p \in Procs |-> NoLoc]

NextBet ==
  \/ Tick
  \/ \E e \in EventIds, lockTime \in 1..(MaxNow + 1), eventRake \in EventRakes :
       createEvent(1, e, lockTime, eventRake)
  \/ \E e \in EventIds : cancelEvent_Find(1, e)
  \/ cancelEvent_Write(1)
  \/ \E u \in Users, e \in EventIds, c \in ChoiceInputs, a \in BetInputs :
       Len(bets) < MaxRaceBets /\ placeBet_FindEvent(1, u, e, c, a)
  \/ BetSteps(1)
  \/ Throw(1)

SpecBet == InitBet /\ [][NextBet]_vars

\* ---- SpecRefund: two handlers serving placeBet, cancelEvent and refundEvent
\* calls on one event, from the store of SpecSettle
RefundSteps(p) ==
  \/ BetSteps(p)
  \/ cancelEvent_Write(p)
  \/ refundEvent_Tx(p)

NextRefund ==
  \E p \in Procs :
    \/ \E o \in SettleOrders, e \in EventIds, c \in EventChoices :
         Len(bets) < MaxRaceBets /\ placeBet_FindEvent(p, o.userId, e, c, o.amount)
    \/ \E e \in EventIds : cancelEvent_Find(p, e)
    \/ \E e \in EventIds : refundEvent_Find(p, e)
    \/ RefundSteps(p)
    \/ Throw(p)

SpecRefund == InitSettle /\ [][NextRefund]_vars

\* the event loop runs every continuation of a handler that has started: a
\* call in progress takes its next step; no new request has to arrive
SpecRefundFair == SpecRefund /\ \A p \in Procs : WF_vars(RefundSteps(p))

\* ---- SpecUuid: a handler converts canonical UUID strings, the test value of
\* uuid.test.ts with its first and last digit replaced by every hex digit
TestUuid ==
  <<"5", "5", "0", "e", "8", "4", "0", "0", "-", "e", "2", "9", "b", "-", "4",
     "1", "d", "4", "-", "a", "7", "1", "6", "-", "4", "4", "6", "6", "5", "5", "4",
     "4", "0", "0", "0", "0">>

UuidInputs ==
  {[TestUuid EXCEPT ![1] = a, ![36] = b] : a \in Range(LowerHex), b \in Range(LowerHex)}

NextUuid ==
  \/ \E uuid \in UuidInputs : convert_Parse(1, uuid)
  \/ convert_ToBuffer(1)
  \/ convert_ToUuid(1)

SpecUuid == Init /\ [][NextUuid]_vars

\* ---- SpecProjector: getBalance on every chip ledger of u1 of up to MaxLedger
\* rows, each row of any transaction type and a credit of 1 chip or a debit of
\* 2 chips, with and without an active bet of u1
ProjectorTypes ==
  {"deposit", "chips_buy", "event_create", "bet_placed", "bet_won", "referral_reward",
   "prize_won", "cashout"}

ProjectorRows ==
  {[userId |-> "u1", amount |-> a, balanceBefore |-> 0, balanceAfter |-> a,
    transactionType |-> t, referenceType |-> "none", referenceId |-> 0, tag |-> "none",
    createdAt |-> 0] : t \in ProjectorTypes, a \in {0 - Chips(2), Chips(1)}}

InitProjector ==
  /\ now = 0
  /\ events = [e \in EventIds |->
       [exists |-> TRUE, status |-> "active", winningSide |-> "none",
        lockTime |-> MaxNow + 1, creatorCommission |-> 1,
        choices |-> [l \in EventChoices |-> 0]]]
  /\ bets \in {<<>>, <<[id |-> 1, userId |-> "u1", eventId |-> "e1", choiceLetter |-> "A",
                        amount |-> Chips(1), status |-> "active"]>>}
  /\ payouts = <<>>
  /\ cashOuts = <<>>
  /\ ledger \in {[u \in Users |-> IF u = "u1" THEN rows ELSE <<>>] :
                   rows \in UNION {[1..n -> ProjectorRows] : n \in 0..MaxLedger}}
  /\ sent = <<>>
  /\ pc = [p \in Procs |-> "idle"]
  /\ loc = [p \in Procs |-> NoLoc]

NextProjector == \E u \in Users : getBalance(1, u)

SpecProjector == InitProjector /\ [][NextProjector]_vars

\* ---- SpecSettleFair: SpecSettle in which the event loop runs every
\* continuation of a call in progress, and the administrator keeps calling
\* distributePayouts, whose transaction gets through whenever it is retried
SpecSettleFair ==
  /\ SpecSettle
  /\ WF_vars(EventSteps(1) \/ BetSteps(1) \/ PayoutSteps(1))
  /\ SF_vars(\E e \in EventIds : distributePayouts_Find(1, e))
  /\ SF_vars(distributePayouts_Tx(1))

\* ------------------------------------------------------------------ claims
\* C1: for a user whose chip total is exactly 100, two concurrent placeBet
\* calls of 60 chips each end with exactly one call succeeding and the other
\* failing with the insufficient-funds error; both never succeed.
RaceOver == \A p \in Procs : pc[p] = "idle" /\ loc[p].outcome # "none"

C1_ExactlyOneBetSucceeds ==
  (RaceOver /\ \A p \in Procs : loc[p].outcome \in {"ok", "Insufficient balance"})
    => \E p, q \in Procs : /\ p # q
                           /\ loc[p].outcome = "ok"
                           /\ loc[q].outcome = "Insufficient balance"

\* C2: a user's total never goes negative: for every user the sum of the
\* signed amounts of the user's chip ledger rows is at least 0.
C2_TotalNeverNegative == \A u \in Users : SumAmounts(ledger[u]) >= 0

\* C3: ledger consistency: every row has balanceAfter = balanceBefore + amount
\* and every row's balanceAfter is the next row's balanceBefore, per user.
C3_LedgerConsistent ==
  \A u \in Users : \A n \in DOMAIN ledger[u] :
    /\ ledger[u][n].balanceAfter = ledger[u][n].balanceBefore + ledger[u][n].amount
    /\ n < Len(ledger[u]) => ledger[u][n].balanceAfter = ledger[u][n + 1].balanceBefore

\* C4: balance decomposition: in every reachable state, for every user, the
\* balances getUserBalances returns are all at least 0, totalChips is the sum
\* of purchasedChips, wonChips and freeChips, and lockedChips is exactly the
\* sum of the amounts of the user's bets whose status is active.
RECURSIVE StakeSum(_)
StakeSum(betIds) ==
  IF betIds = {} THEN 0
  ELSE LET i == CHOOSE x \in betIds : TRUE IN bets[i].amount + StakeSum(betIds \ {i})

C4_BalanceDecomposition ==
  \A u \in Users :
    LET b == getUserBalances(u) IN
    /\ b.purchasedChips >= 0 /\ b.wonChips >= 0 /\ b.freeChips >= 0
    /\ b.lockedChips >= 0 /\ b.totalChips >= 0
    /\ b.totalChips = b.purchasedChips + b.wonChips + b.freeChips
    /\ b.lockedChips = StakeSum({i \in DOMAIN bets : bets[i].userId = u
                                                     /\ bets[i].status = "active"})

\* a user holding purchased chips with two active bets of 60 chips
C4_Witness ==
  \E u \in Users :
    /\ getUserBalances(u).purchasedChips > 0
    /\ getUserBalances(u).lockedChips = Chips(120)

\* a step in which the transaction of resolveEvent commits, and the payout rows
\* the step creates
ResolveCommit(p) ==
  pc[p] = "resolveEvent_tx" /\ pc'[p] = "idle" /\ loc'[p].outcome = "ok"

CreatedPayouts == SubSeq(payouts', Len(payouts) + 1, Len(payouts'))

PoolTotal(e) == SumPools(events[e].choices, DOMAIN events[e].choices)

\* C5: pari-mutuel conservation: for every resolveEvent that commits with
\* winningPool > 0, whatever preceded it, the payout amounts it creates sum to
\* distributionPool within a hundredth of a chip, and eventRakeAmount +
\* prizePoolRakeAmount + distributionPool is totalPool, the sum of the
\* event's choice pools.
C5_PariMutuelConservation ==
  [][\A p \in Procs :
       (ResolveCommit(p) /\ events[loc[p].eventId].choices[loc[p].choiceLetter] > 0) =>
         LET calc == loc[p].calc IN
         /\ Abs(SumAmounts(CreatedPayouts) - calc.distributionPool) <= Unit \div 100
         /\ calc.eventRakeAmount + calc.prizePoolRake + calc.distributionPool
              = PoolTotal(loc[p].eventId)]_vars

\* the bets of an event that are active before the step, by side
ActiveOn(e, letters) ==
  SelectSeq(RowIds(bets), LAMBDA i : /\ bets[i].eventId = e
                                     /\ bets[i].status = "active"
                                     /\ bets[i].choiceLetter \in letters)

\* distributionPool recomputed from the event row: the pool total less the
\* event rake, less the prize pool rake on the remainder
DistributionPoolOf(e) ==
  LET afterEventRake == PoolTotal(e) - (PoolTotal(e) * events[e].creatorCommission) \div 100
  IN afterEventRake - (afterEventRake \div 1000) * COMPANY_PRIZE_POOL_RAKE

\* C6: when resolveEvent commits with winningPool > 0, every bet that was
\* active on the winning choice becomes won and gets exactly one pending
\* payout row (one per bet, in order, not netted per user) of amount
\* distributionPool * (bet.amount / winningPool); every bet that was active on
\* another choice becomes lost and gets no payout row; the event becomes
\* completed with the winning choice recorded.  For pools A = 1000, B = 500,
\* rake 1%, winner A: eventRake 15, prizePoolRake 37.125, distributionPool
\* 1447.875, and the single A bettor is paid 1447.875.
C6_ResolveSettlesBets ==
  [][\A p \in Procs :
       LET e == loc[p].eventId
           w == loc[p].choiceLetter
           winningPool == events[e].choices[w]
           winners == ActiveOn(e, {w})
           losers == ActiveOn(e, DOMAIN events[e].choices \ {w})
       IN (ResolveCommit(p) /\ loc[p].calc.winningPool > 0) =>
            /\ \A k \in DOMAIN winners : bets'[winners[k]].status = "won"
            /\ \A k \in DOMAIN losers : bets'[losers[k]].status = "lost"
            /\ Len(CreatedPayouts) = Len(winners)
            /\ \A k \in DOMAIN winners :
                 /\ k \in DOMAIN CreatedPayouts
                 /\ CreatedPayouts[k].userId = bets[winners[k]].userId
                 /\ CreatedPayouts[k].eventId = e
                 /\ CreatedPayouts[k].status = "pending"
                 /\ CreatedPayouts[k].amount =
                      MulDivRound(DistributionPoolOf(e), bets[winners[k]].amount \div Unit,
                                  winningPool \div Unit)
            /\ events'[e].status = "completed" /\ events'[e].winningSide = w
            /\ (/\ events[e].choices = [l \in EventChoices |-> IF l = "A" THEN Chips(1000)
                                                                          ELSE Chips(500)]
                /\ events[e].creatorCommission = 1
                /\ w = "A"
                /\ Len(winners) = 1)
               => /\ loc[p].calc.eventRakeAmount = Chips(15)
                  /\ 8 * loc[p].calc.prizePoolRake = Chips(297)
                  /\ 8 * loc[p].calc.distributionPool = Chips(11583)
                  /\ CreatedPayouts[1].amount = loc[p].calc.distributionPool]_vars

\* C7: degenerate refund: when resolveEvent is called with a defined choice
\* whose pool is 0 and commits, it creates no payout row, collects no rake,
\* and every bet that was active on the event ends refunded, each refund
\* amount being the bet's original stake.
C7_DegenerateRefund ==
  [][\A p \in Procs :
       LET e == loc[p].eventId
           calc == loc[p].calc
           active == ActiveOn(e, VALID_CHOICE_LETTERS)
       IN (ResolveCommit(p) /\ calc.winningPool = 0) =>
            /\ payouts' = payouts
            /\ calc.eventRakeAmount = 0 /\ calc.prizePoolRake = 0
            /\ \A k \in DOMAIN active :
                 /\ bets'[active[k]].status = "refunded"
                 /\ \E r \in DOMAIN calc.refunds :
                      /\ calc.refunds[r].betId = active[k]
                      /\ calc.refunds[r].amount = bets[active[k]].amount
            /\ \A r \in DOMAIN calc.refunds :
                 /\ bets'[calc.refunds[r].betId].status = "refunded"
                 /\ calc.refunds[r].amount = bets[calc.refunds[r].betId].amount]_vars

\* the bet_won rows of a ledger that credit the payout row i
CreditsIn(led, pays, i) ==
  SelectSeq(led[pays[i].userId], LAMBDA tx : /\ tx.transactionType = "bet_won"
                                             /\ tx.referenceType = "event_payout"
                                             /\ tx.referenceId = i)

DistributeCommit(p) ==
  pc[p] = "distributePayouts_tx" /\ pc'[p] = "idle" /\ loc'[p].outcome = "ok"

\* C8: idempotent distribution: with distributePayouts called twice in
\* sequence on an event, each payout is credited exactly once: after the call
\* that commits, every payout of the event is completed with one bet_won
\* credit of its amount, and a call made when no payout of the event is
\* pending appends no ledger row and changes no payout, bet or event.
C8_IdempotentDistribution ==
  [][\A p \in Procs, e \in EventIds :
       /\ (DistributeCommit(p) /\ loc[p].eventId = e) =>
            \A i \in DOMAIN payouts' :
              payouts'[i].eventId = e =>
                /\ payouts'[i].status = "completed"
                /\ Len(CreditsIn(ledger', payouts', i)) = 1
                /\ CreditsIn(ledger', payouts', i)[1].amount = payouts'[i].amount
       /\ (/\ distributePayouts_Find(p, e)
           /\ \A i \in DOMAIN payouts : payouts[i].eventId = e => payouts[i].status = "completed")
            => pc'[p] = "idle" /\ UNCHANGED db
       /\ \A i \in DOMAIN payouts' :
            Len(CreditsIn(ledger', payouts', i)) = IF payouts'[i].status = "completed" THEN 1 ELSE 0]_vars

\* the second call has returned on the paid out event, whose payouts are
\* completed and credited once
C8_Witness ==
  /\ loc[1].outcome = "No pending payouts for this event"
  /\ events["e1"].status = "paid_out"
  /\ payouts # <<>>
  /\ \A i \in DOMAIN payouts :
       payouts[i].status = "completed" /\ Len(CreditsIn(ledger, payouts, i)) = 1

\* C9: under any interleaving of two or more distributePayouts calls on an
\* event, each payout row is credited at most once: no two bet_won ledger rows
\* reference the same payout.
C9_CreditedAtMostOnce ==
  \A i \in DOMAIN payouts : Len(CreditsIn(ledger, payouts, i)) <= 1

\* C10: partial failure of distributePayouts: when crediting one payout of the
\* batch fails, that payout stays pending and the other payouts of the batch
\* are credited and completed; the event is paid_out only when no payout of
\* the event is pending.
C10_PartialFailure ==
  [][\A p \in Procs :
       LET e == loc[p].eventId
           batch == Range(loc[p].rows)
       IN (pc[p] = "distributePayouts_tx" /\ pc'[p] = "idle") =>
            /\ loc'[p].outcome # "ok" =>
                 \E failed \in batch :
                   /\ payouts'[failed].status = "pending"
                   /\ \A i \in batch \ {failed} :
                        /\ payouts'[i].status = "completed"
                        /\ Len(CreditsIn(ledger', payouts', i)) = 1
            /\ events'[e].status = "paid_out" =>
                 \A i \in DOMAIN payouts' :
                   payouts'[i].eventId = e => payouts'[i].status # "pending"]_vars

\* the ledger without the rows that reference the withdrawal request r (its
\* cashout debit and its refund credit)
WithoutRequest(led, userId, r) ==
  [led EXCEPT ![userId] =
     SelectSeq(@, LAMBDA tx : ~(/\ tx.referenceType \in {"cashout_request",
                                                        "cashout_request_refund"}
                               /\ tx.referenceId = r))]

\* the labels of processWithdrawal after the transfer or the update has failed
CatchBlock == {"processWithdrawal_reject", "processWithdrawal_read", "processWithdrawal_refund"}

\* C11: withdrawal hold and compensation: right after a successful
\* requestWithdrawal(amount) the user's won balance is lower by exactly
\* amount; when processWithdrawal of the request fails in the external
\* transfer, the request is rejected and the user's won balance is what it is
\* without the request.
C11_HoldAndCompensate ==
  [][\A p \in Procs :
       LET u == loc[p].userId
           r == loc[p].requestId
       IN /\ (pc[p] = "requestWithdrawal_ledger" /\ pc'[p] = "idle" /\ loc'[p].outcome = "ok") =>
               BalancesOf(ledger', bets', u).wonChips
                 = BalancesOf(ledger, bets, u).wonChips - loc[p].amount
          /\ (/\ pc[p] \in CatchBlock /\ pc'[p] = "idle"
              /\ sent[r] = 0
              /\ \E n \in DOMAIN ledger[u] : /\ ledger[u][n].referenceType = "cashout_request"
                                              /\ ledger[u][n].referenceId = r) =>
               /\ cashOuts'[r].status = "rejected"
               /\ BalancesOf(ledger', bets', u).wonChips
                    = BalancesOf(WithoutRequest(ledger', u, r), bets', u).wonChips]_vars

\* C12: requestWithdrawal succeeds only if amount is at most the user's won
\* balance: a call goes past its check only then, and a call that fails with
\* the insufficient won chips error creates no withdrawal request and no
\* ledger row.  Purchased and free chips
\* are never withdrawable: a request row and a cashout debit are only written
\* for a user whose won balance covers the amount.
C12_OnlyWonChipsWithdrawable ==
  [][\A p \in Procs :
       /\ (pc[p] = "idle" /\ pc'[p] = "requestWithdrawal_create") =>
            loc'[p].amount <= getUserBalances(loc'[p].userId).wonChips
       /\ (pc[p] = "idle" /\ loc'[p].outcome = "Insufficient won chips") => UNCHANGED db
       /\ Len(cashOuts') > Len(cashOuts) =>
            /\ Len(cashOuts') = Len(cashOuts) + 1
            /\ cashOuts'[Len(cashOuts')].amount
                 <= getUserBalances(cashOuts'[Len(cashOuts')].userId).wonChips
       /\ \A u \in Users :
            (/\ Len(ledger'[u]) > Len(ledger[u])
             /\ ledger'[u][Len(ledger'[u])].transactionType = "cashout") =>
              0 - ledger'[u][Len(ledger'[u])].amount <= getUserBalances(u).wonChips]_vars

\* a user holding only purchased chips has been refused: no request, no debit
C12_Witness ==
  /\ loc[1].outcome = "Insufficient won chips"
  /\ loc[1].available = 0
  /\ cashOuts = <<>>
  /\ \E u \in Users :
       /\ getUserBalances(u).purchasedChips >= Chips(100)
       /\ getUserBalances(u).wonChips = 0
       /\ \A n \in DOMAIN ledger[u] : ledger[u][n].transactionType # "cashout"

\* C13: under any interleaving of requestWithdrawal calls of one user, the
\* amounts of that user's pending and completed withdrawal requests never sum
\* to more than the user's won credits (the bet_won and prize_won ledger rows)
C13_HoldAgainstDoubleSpend ==
  \A u \in Users :
    SumAmounts(SelectSeq(cashOuts, LAMBDA c : c.userId = u /\ c.status \in {"pending", "completed"}))
      <= SumAmounts(SelectSeq(ledger[u], LAMBDA tx : tx.transactionType \in {"bet_won", "prize_won"}))

\* C14: a withdrawal request's status changes only from pending to completed
\* or to rejected and never changes afterwards; processWithdrawal on a request
\* that is not pending fails without a transfer and without a ledger row; the
\* funds of a request are sent at most once
C14_WithdrawalTerminal ==
  [][/\ \A r \in DOMAIN cashOuts :
          /\ cashOuts'[r].status # cashOuts[r].status =>
                /\ cashOuts[r].status = "pending"
                /\ cashOuts'[r].status \in {"completed", "rejected"}
          /\ sent'[r] <= 1
     /\ \A p \in Procs :
          (pc[p] = "idle" /\ loc'[p].outcome = "Withdrawal request already processed") =>
            UNCHANGED db]_vars

\* C15: in every state in which no call is in progress, the states left by a
\* failed store call included, a withdrawal request exists only together with
\* its cashout debit row, and a rejected request only together with exactly
\* one credit of the held amount
C15_HoldAndStatusAtomic ==
  (\A p \in Procs : pc[p] = "idle") =>
  \A r \in DOMAIN cashOuts :
    LET u == cashOuts[r].userId
        debits == SelectSeq(ledger[u], LAMBDA tx : /\ tx.transactionType = "cashout"
                                                   /\ tx.referenceType = "cashout_request"
                                                   /\ tx.referenceId = r)
        credits == SelectSeq(ledger[u], LAMBDA tx : /\ tx.referenceType = "cashout_request_refund"
                                                    /\ tx.referenceId = r)
    IN /\ Len(debits) = 1
       /\ debits[1].amount = 0 - cashOuts[r].amount
       /\ cashOuts[r].status = "rejected" =>
            /\ Len(credits) = 1
            /\ credits[1].amount = cashOuts[r].amount
       /\ cashOuts[r].status # "rejected" => credits = <<>>

\* the bet_placed rows of a user's ledger that reference the bet i
BetDebits(u, i) ==
  SelectSeq(ledger[u], LAMBDA tx : /\ tx.transactionType = "bet_placed"
                                   /\ tx.referenceType = "event_bet"
                                   /\ tx.referenceId = i)

\* C16: in every state a bet row exists exactly when one bet_placed ledger row
\* of minus the bet's amount references it, and the total pool of every choice
\* is the sum of the amounts of the bets placed on it: no bet lacks its debit,
\* no debit or pool increment lacks its bet
C16_BetPlacementAtomic ==
  /\ \A i \in DOMAIN bets :
       /\ Len(BetDebits(bets[i].userId, i)) = 1
       /\ BetDebits(bets[i].userId, i)[1].amount = 0 - bets[i].amount
       /\ \A u \in Users \ {bets[i].userId} : BetDebits(u, i) = <<>>
  /\ \A u \in Users : \A n \in DOMAIN ledger[u] :
       ledger[u][n].transactionType = "bet_placed" =>
         /\ ledger[u][n].referenceType = "event_bet"
         /\ ledger[u][n].referenceId \in DOMAIN bets
  /\ \A e \in EventIds : \A l \in DOMAIN events[e].choices :
       events[e].choices[l]
         = StakeSum({i \in DOMAIN bets : bets[i].eventId = e /\ bets[i].choiceLetter = l})

C16_Witness ==
  /\ Len(bets) >= 2
  /\ \E i, j \in DOMAIN bets :
       /\ i # j
       /\ bets[i].choiceLetter = bets[j].choiceLetter
       /\ bets[i].userId # bets[j].userId
       /\ events[bets[i].eventId].choices[bets[i].choiceLetter] = bets[i].amount + bets[j].amount
       /\ Len(BetDebits(bets[i].userId, i)) = 1
       /\ Len(BetDebits(bets[j].userId, j)) = 1

\* the edges of the event life cycle: draft -> pending -> active -> locked ->
\* completed -> paid_out, active -> completed, and cancelled from any status
\* before completed
StatusEdges ==
  {<<"draft", "pending">>, <<"pending", "active">>, <<"active", "locked">>,
   <<"locked", "completed">>, <<"active", "completed">>, <<"completed", "paid_out">>}
    \cup {<<s, "cancelled">> : s \in {"draft", "pending", "active", "locked"}}

\* C17: every change of an event's status made by an operation follows an
\* edge of the life cycle; no backward or other change of status occurs
C17_StatusStateMachine ==
  [][\A e \in EventIds :
       (events[e].exists /\ events'[e].status # events[e].status) =>
         <<events[e].status, events'[e].status>> \in StatusEdges]_vars

\* C18: once an event is cancelled its status never changes again, no bet
\* is accepted on it and neither resolveEvent nor distributePayouts succeeds
\* on it
C18_CancelledTerminal ==
  [][\A e \in EventIds :
       events[e].status = "cancelled" =>
         /\ events'[e].status = "cancelled"
         /\ \A i \in DOMAIN bets' : i \notin DOMAIN bets => bets'[i].eventId # e
         /\ \A p \in Procs :
              (/\ pc[p] \in {"resolveEvent_tx", "distributePayouts_tx"}
               /\ loc[p].eventId = e) => ~(pc'[p] = "idle" /\ loc'[p].outcome = "ok")]_vars

\* the errors with which resolveEvent and cancelEvent refuse a call
RefusedOutcomes ==
  {"ValidationError", "Event already resolved", "Event must be locked or active to resolve",
   "Invalid winning side", "Cannot cancel this event"}

\* C19: with calls served one at a time, resolveEvent goes past its checks
\* and commits only on an event that is active or locked and with a winning
\* side that is one of the event's choices, cancelEvent goes past its check and
\* writes only on an event that is not completed, paid_out or cancelled, and a
\* call that either operation refuses leaves events, bets, pools, payouts and
\* ledger unchanged
C19_IllegalOperationsMutateNothing ==
  [][\A p \in Procs :
       /\ (pc[p] = "idle" /\ pc'[p] = "resolveEvent_calc") =>
            events[loc'[p].eventId].status \in {"active", "locked"}
       /\ (pc[p] = "resolveEvent_calc" /\ pc'[p] = "resolveEvent_tx") =>
            loc[p].choiceLetter \in DOMAIN events[loc[p].eventId].choices
       /\ (pc[p] = "resolveEvent_tx" /\ pc'[p] = "idle" /\ loc'[p].outcome = "ok") =>
            /\ events[loc[p].eventId].status \in {"active", "locked"}
            /\ loc[p].choiceLetter \in DOMAIN events[loc[p].eventId].choices
       /\ (pc[p] = "idle" /\ pc'[p] = "cancelEvent_write") =>
            events[loc'[p].eventId].status \notin {"completed", "paid_out", "cancelled"}
       /\ (pc[p] = "cancelEvent_write" /\ pc'[p] = "idle" /\ loc'[p].outcome = "ok") =>
            events[loc[p].eventId].status \notin {"completed", "paid_out", "cancelled"}
       /\ (/\ pc[p] \in {"idle", "resolveEvent_calc"} /\ pc'[p] = "idle"
           /\ loc'[p].outcome \in RefusedOutcomes) => UNCHANGED db]_vars

C19_Witness ==
  /\ pc[1] = "idle"
  /\ loc[1].outcome = "Event already resolved"
  /\ events["e1"].status = "completed"
  /\ Len(payouts) > 0
  /\ \A k \in DOMAIN payouts : payouts[k].status = "pending"
  /\ \E i \in DOMAIN bets : bets[i].status = "won"

\* C20: under any interleaving of one resolveEvent call with placeBet calls
\* on the same event, once the resolution has committed (the event is
\* completed) no bet of the event is active, and the payout rows of the event
\* are as many as its won bets
C20_ResolveExcludesBetting ==
  \A e \in EventIds :
    events[e].status \in {"completed", "paid_out"} =>
      /\ \A i \in DOMAIN bets : bets[i].eventId = e => bets[i].status # "active"
      /\ Cardinality({i \in DOMAIN bets : bets[i].eventId = e /\ bets[i].status = "won"})
           = Cardinality({k \in DOMAIN payouts : payouts[k].eventId = e})

\* C21: no bet is ever accepted on an event that is not active or after the
\* lock time: whenever a bet row is created, the event of the bet is active
\* and the clock is before the event's lock time
C21_LockTimeAuthoritative ==
  [][\A i \in DOMAIN bets' :
       i \notin DOMAIN bets =>
         /\ events[bets'[i].eventId].status = "active"
         /\ now < events[bets'[i].eventId].lockTime]_vars

\* the errors with which placeBet refuses a call
BetRefusals ==
  {"ValidationError", "Event not found", "Event is not accepting bets",
   "Betting is locked for this event", "Invalid choice", "Insufficient balance"}

\* C22: with calls served one at a time, a placeBet call that is refused
\* creates no bet, changes no pool and appends no ledger row; a call goes past
\* the first checks only with an existing event, a choice of the event and an
\* amount within [1, 2000], and past the balance check only with an amount that
\* the user's total covers; the refusal for insufficient funds carries the
\* user's total
C22_FailedBetWritesNothing ==
  [][\A p \in Procs :
       /\ (/\ pc[p] \in {"idle", "placeBet_check"} /\ pc'[p] = "idle"
           /\ loc'[p] # loc[p]
           /\ loc'[p].outcome \in BetRefusals) => UNCHANGED db
       /\ (pc[p] = "idle" /\ pc'[p] = "placeBet_check") =>
            /\ events[loc'[p].eventId].exists
            /\ loc'[p].choiceLetter \in DOMAIN events[loc'[p].eventId].choices
            /\ loc'[p].amount >= Chips(MIN_BET_AMOUNT)
            /\ loc'[p].amount <= Chips(MAX_BET_AMOUNT)
       /\ (pc[p] = "placeBet_check" /\ pc'[p] = "placeBet_read") =>
            loc[p].amount <= getUserBalances(loc[p].userId).totalChips
       /\ (pc[p] = "placeBet_check" /\ pc'[p] = "idle"
             /\ loc'[p].outcome = "Insufficient balance") =>
            /\ loc'[p].available = getUserBalances(loc[p].userId).totalChips
            /\ loc'[p].available < loc[p].amount
       /\ (pc[p] = "placeBet_tx" /\ Len(bets') > Len(bets)) =>
            /\ bets'[Len(bets')].amount <= getUserBalances(bets'[Len(bets')].userId).totalChips
            /\ bets'[Len(bets')].choiceLetter \in DOMAIN events[bets'[Len(bets')].eventId].choices]_vars

C22_Witness ==
  /\ pc[1] = "idle"
  /\ loc[1].outcome = "Insufficient balance"
  /\ loc[1].available = Chips(5)
  /\ getUserBalances("u1").totalChips = Chips(5)
  /\ bets = <<>>
  /\ \A e \in EventIds : /\ events[e].exists
                          /\ \A l \in DOMAIN events[e].choices : events[e].choices[l] = 0
  /\ Len(ledger["u1"]) = 1

\* C23: a bet is created active and changes status at most once, to won,
\* lost or refunded; a bet that is won, lost or refunded never changes status
\* again, under any interleaving of the settlement operations
C23_BetStatusOneWay ==
  [][/\ \A i \in DOMAIN bets :
          bets'[i].status # bets[i].status =>
            /\ bets[i].status = "active"
            /\ bets'[i].status \in {"won", "lost", "refunded"}
     /\ \A i \in DOMAIN bets' : i \notin DOMAIN bets => bets'[i].status = "active"]_vars

\* the refund credits, in any user's ledger, that reference the bet i
RefundCredits(i) ==
  {<<u, n>> \in Users \X (1..(LedgerSize)) :
     /\ n \in DOMAIN ledger[u]
     /\ ledger[u][n].referenceType = "event_refund"
     /\ ledger[u][n].referenceId = i}

\* C24: refundEvent never credits the same bet twice, whether it is repeated
\* or interleaved with another refundEvent on the same event: every bet has at
\* most one refund credit, and a refunded bet has one credit of its full stake
C24_RefundIdempotent ==
  \A i \in DOMAIN bets :
    /\ Cardinality(RefundCredits(i)) <= 1
    /\ \A c \in RefundCredits(i) :
         /\ c[1] = bets[i].userId
         /\ ledger[c[1]][c[2]].amount = bets[i].amount

\* C25: after cancelEvent succeeds, every bet that is active on the cancelled
\* event eventually becomes refunded
C25_CancelTriggersRefund ==
  \A i \in 1..MaxRaceBets :
    (/\ i \in DOMAIN bets
     /\ bets[i].status = "active"
     /\ events[bets[i].eventId].status = "cancelled")
      ~> (i \in DOMAIN bets /\ bets[i].status = "refunded")

\* C26: a successful placeBet of amount a lowers the user's free balance by
\* min(a, free), the purchased balance by the part of the remainder it can
\* cover and the won balance by what is left
C26_DeductionPriority ==
  [][\A p \in Procs :
       (pc[p] = "placeBet_tx" /\ pc'[p] = "idle" /\ loc'[p].outcome = "ok") =>
         LET before == BalancesOf(ledger, bets, loc[p].userId)
             after == BalancesOf(ledger', bets', loc[p].userId)
             deductions == deductChips(before, loc[p].amount)
         IN /\ after.freeChips = before.freeChips - deductions.free
            /\ after.purchasedChips = before.purchasedChips - deductions.purchased
            /\ after.wonChips = before.wonChips - deductions.won
            /\ deductions.free + deductions.purchased + deductions.won = loc[p].amount]_vars

\* the deposit rows, in any user's ledger, that carry the signature sig
DepositsOf(sig) ==
  {<<u, n>> \in Users \X (1..LedgerSize) :
     /\ n \in DOMAIN ledger[u]
     /\ ledger[u][n].transactionType = "deposit"
     /\ ledger[u][n].tag = sig}

\* C27: a deposit transaction signature is credited at most once: whatever
\* deposits were made, by the same or by different users, at most one deposit
\* ledger row exists per signature
C27_SignatureCreditedOnce ==
  \A sig \in Signatures : Cardinality(DepositsOf(sig)) <= 1

\* C28: any two successful daily claims of one user are at least
\* FREE_CHIPS_COOLDOWN_HOURS apart (one tick of the clock is 24 hours), also
\* when two claims of the user run concurrently, and every claim row credits
\* exactly FREE_CHIPS_DAILY_AMOUNT
C28_ClaimCooldown ==
  \A u \in Users :
    LET claims == DailyClaims(u) IN
    /\ \A n, m \in DOMAIN claims :
         n < m => (claims[m].createdAt - claims[n].createdAt) * 24 >= FREE_CHIPS_COOLDOWN_HOURS
    /\ \A n \in DOMAIN claims : claims[n].amount = Chips(FREE_CHIPS_DAILY_AMOUNT)

\* C29: for every canonical lowercase hyphenated UUID string, uuidToBuffer
\* gives 16 bytes and bufferToUuid of those bytes gives the string back
C29_UuidRoundTrip ==
  \A p \in Procs :
    /\ pc[p] = "convert_toUuid" => Len(loc[p].buffer) = 16
    /\ (pc[p] = "idle" /\ loc[p].uuid # <<>>) =>
         /\ Len(loc[p].buffer) = 16
         /\ \A k \in DOMAIN loc[p].buffer : loc[p].buffer[k] \in 0..255
         /\ loc[p].text = loc[p].uuid

C29_Witness ==
  /\ pc[1] = "idle"
  /\ loc[1].uuid = [TestUuid EXCEPT ![1] = "f", ![36] = "a"]
  /\ loc[1].buffer[1] = 245
  /\ loc[1].buffer[16] = 10
  /\ loc[1].text = loc[1].uuid

\* the sum of the amounts of the rows of the given transaction types
SumOfTypes(rows, types) ==
  SumAmounts(SelectSeq(rows, LAMBDA tx : tx.transactionType \in types))

C31_PoolsTrackActiveStakes ==
  /\ [](\A e \in EventIds :
          (events[e].exists /\ events[e].status \in {"active", "locked"}) =>
            \A l \in DOMAIN events[e].choices :
              events[e].choices[l] = StakeSum(Range(ActiveOn(e, {l}))))
  /\ [][\A e \in EventIds :
          events[e].exists =>
            \A l \in DOMAIN events[e].choices :
              events'[e].choices[l] # events[e].choices[l] =>
                /\ Len(bets') = Len(bets) + 1
                /\ bets'[Len(bets')].eventId = e
                /\ bets'[Len(bets')].choiceLetter = l
                /\ events'[e].choices[l] = events[e].choices[l] + bets'[Len(bets')].amount]_vars

\* C32: the ledger is append-only: every step leaves the existing ledger rows
\* of every user unchanged (none is updated or deleted) and at most appends
\* rows; and an operation that fails appends none
C32_LedgerAppendOnly ==
  [][/\ \A u \in Users :
          /\ Len(ledger'[u]) >= Len(ledger[u])
          /\ SubSeq(ledger'[u], 1, Len(ledger[u])) = ledger[u]
     /\ \A p \in Procs :
          (pc[p] # "idle" /\ pc'[p] = "idle" /\ loc'[p].outcome # "ok") =>
            ledger' = ledger]_vars

\* C33: an event reaches completed only through resolveEvent and paid_out
\* only through distributePayouts: an event that is completed or paid_out has
\* a winning choice that is one of its choices; an event that is paid_out has
\* every one of its payouts credited; the status becomes completed only in the
\* committing step of resolveEvent, and paid_out only from completed, in the
\* committing step of distributePayouts
C33_CompletedOnlyByResolution ==
  /\ [](\A e \in EventIds :
          (events[e].exists /\ events[e].status \in {"completed", "paid_out"}) =>
            events[e].winningSide \in DOMAIN events[e].choices)
  /\ [](\A e \in EventIds :
          (events[e].exists /\ events[e].status = "paid_out") =>
            \A i \in DOMAIN payouts :
              payouts[i].eventId = e => payouts[i].status = "completed")
  /\ [][\A e \in EventIds :
          (events[e].exists /\ events'[e].status # events[e].status) =>
            /\ events'[e].status = "completed" =>
                  \E p \in Procs : ResolveCommit(p) /\ loc[p].eventId = e
            /\ events'[e].status = "paid_out" =>
                  /\ events[e].status = "completed"
                  /\ \E p \in Procs : DistributeCommit(p) /\ loc[p].eventId = e]_vars

\* C34: every refunded bet is credited: a bet whose status is refunded,
\* whether refundEvent or the resolution with winningPool = 0 set it, has
\* exactly one refund credit in the ledger, of its full stake, to its user
C34_RefundedBetCredited ==
  \A i \in DOMAIN bets :
    bets[i].status = "refunded" =>
      /\ Cardinality(RefundCredits(i)) = 1
      /\ \A c \in RefundCredits(i) :
           /\ c[1] = bets[i].userId
           /\ ledger[c[1]][c[2]].amount = bets[i].amount
           /\ ledger[c[1]][c[2]].transactionType = "bet_won"

\* C35: at most one resolution commits per event: under any interleaving of
\* two resolveEvent calls on the same event, the transaction of resolveEvent
\* commits only on an event that no resolution has completed yet, so the
\* other call fails without writing; and the payout rows of an event never
\* outnumber its won bets
C35_OneResolutionPerEvent ==
  /\ [][\A p \in Procs :
          ResolveCommit(p) => events[loc[p].eventId].status \in {"active", "locked"}]_vars
  /\ [](\A e \in EventIds :
          Len(PendingPayoutIds_AnyStatus(e))
            <= Cardinality({i \in DOMAIN bets : bets[i].eventId = e /\ bets[i].status = "won"}))

\* the ledger credits issued for the event e to the given users (payout
\* credits of its payout rows and refund credits of its bets), and the stakes
\* debited from them for bets placed on e
RECURSIVE EventCredits(_, _)
EventCredits(e, users) ==
  IF users = {} THEN 0
  ELSE LET u == CHOOSE x \in users : TRUE IN
       SumAmounts(SelectSeq(ledger[u], LAMBDA tx :
                    /\ tx.transactionType = "bet_won"
                    /\ \/ /\ tx.referenceType = "event_payout"
                          /\ payouts[tx.referenceId].eventId = e
                       \/ /\ tx.referenceType = "event_refund"
                          /\ bets[tx.referenceId].eventId = e))
         + EventCredits(e, users \ {u})

RECURSIVE EventDebits(_, _)
EventDebits(e, users) ==
  IF users = {} THEN 0
  ELSE LET u == CHOOSE x \in users : TRUE IN
       SumAmounts(SelectSeq(ledger[u], LAMBDA tx :
                    /\ tx.transactionType = "bet_placed"
                    /\ tx.referenceType = "event_bet"
                    /\ bets[tx.referenceId].eventId = e))
         + EventDebits(e, users \ {u})

\* C36: per-event chip conservation: for every event, the ledger credits
\* issued for it (credited payouts and bet refunds) never exceed the stakes
\* debited for the bets placed on it (debits are negative amounts); and a
\* stake is returned or paid out at most once: a bet has at most one refund
\* credit, a payout row at most one payout credit, and a bet that holds a
\* refund credit is not won
C36_EventChipConservation ==
  /\ \A e \in EventIds : EventCredits(e, Users) + EventDebits(e, Users) <= 0
  /\ \A i \in DOMAIN bets :
       /\ Cardinality(RefundCredits(i)) <= 1
       /\ RefundCredits(i) # {} => bets[i].status # "won"
  /\ \A i \in DOMAIN payouts : Len(CreditsIn(ledger, payouts, i)) <= 1

\* the ledger without the rows that reference the bet i (its bet_placed debit
\* and its refund credit): the ledger as it would be had the bet not been placed
WithoutBet(led, userId, i) ==
  [led EXCEPT ![userId] =
     SelectSeq(@, LAMBDA tx : ~(/\ tx.referenceType \in {"event_bet", "event_refund"}
                               /\ tx.referenceId = i))]

\* C37: a bet followed by its refund is balance-neutral: when refundEvent
\* commits on a cancelled event, for every bet it refunds the user's projected
\* purchased, won, free and total balances equal the values they have without
\* the bet and its refund, that is, their values before the bet
C37_BetRefundNeutral ==
  [][\A p \in Procs :
       (pc[p] = "refundEvent_tx" /\ pc'[p] = "idle" /\ loc'[p].outcome = "ok") =>
         \A k \in DOMAIN loc[p].rows :
           LET i == loc[p].rows[k]
               u == bets[i].userId
               after == BalancesOf(ledger', bets', u)
               before == BalancesOf(WithoutBet(ledger', u, i), bets', u)
           IN /\ after.purchasedChips = before.purchasedChips
              /\ after.wonChips = before.wonChips
              /\ after.freeChips = before.freeChips
              /\ after.totalChips = before.totalChips]_vars

\* C38: every resolved event can be paid out: every event that resolveEvent
\* moved to completed (its winning side is recorded), also one resolved with
\* winningPool = 0 or without bets, eventually reaches paid_out when
\* distributePayouts keeps being called
C38_ResolvedEventPaidOut ==
  \A e \in EventIds :
    (events[e].status = "completed" /\ events[e].winningSide # "none")
      ~> (events[e].status = "paid_out")

\* C39: processWithdrawal never both sends the funds and credits the hold
\* back: a request whose treasury transfer went through has no compensating
\* credit in the ledger and is never rejected, even when a step after the
\* transfer fails
C39_NeverSentAndRefunded ==
  \A r \in DOMAIN cashOuts :
    sent[r] > 0 =>
      /\ cashOuts[r].status # "rejected"
      /\ \A n \in DOMAIN ledger[cashOuts[r].userId] :
           ~(/\ ledger[cashOuts[r].userId][n].referenceType = "cashout_request_refund"
             /\ ledger[cashOuts[r].userId][n].referenceId = r)
====
